---- MODULE Spec2Model ----
(***************************************************************************)
(* A model of the Goban (Go board) engine of giles/games/goban.py: the     *)
(* grid, resize, invert, go_play, go_find_captures and recurse_captures.   *)
(* The printable board (update_printable_board) is pure formatting over    *)
(* the grid and is not modelled.  With it, the Seat of giles/games/seat.py *)
(* and the Whist table of giles/games/whist/whist.py.                      *)
(*                                                                         *)
(* Spec        every call is one step, on the board of the smallest size.  *)
(* SpecDeep    the same with one more stone on the board.                  *)
(* SpecSteps   invert runs statement by statement, and resize moves        *)
(*             between boards of several sizes.                            *)
(* SpecAnalyze recurse_captures called on its own on any grid of the       *)
(*             smallest size.                                              *)
(* SpecTraverse recurse_captures call by call, from any stone of any grid  *)
(*             of the smallest size.                                       *)
(* SpecSeat    sit and stand on four seats.                                *)
(* SpecWhist   a Whist table: seating, setup, tick, and the play of cards. *)
(***************************************************************************)
EXTENDS Integers, Sequences, FiniteSets, TLC

\* ---------------------------------------------------------------------
\* Program constants (goban.py:17-24)
\* ---------------------------------------------------------------------
WHITE == "white"
BLACK == "black"
\* Python's None as a cell value or as a captured colour.
None == "None"

MIN_SIZE == 3
MAX_SIZE == 26

SQUARE_DELTAS == << <<-1, 0>>, <<1, 0>>, <<0, -1>>, <<0, 1>> >>

\* The value of last_row / last_col while they are None (no row or column
\* of a board is negative, so the value stands for no coordinate).
Unset == -1

\* ---------------------------------------------------------------------
\* Bounds of the model
\* ---------------------------------------------------------------------
\* Spec explores go_play while the board holds fewer than MaxStones
\* stones.
MaxStones == 5

\* The same for SpecDeep, which differs from Spec in this bound only.
MaxStonesDeep == 6

\* The same for the boards of several sizes that SpecSteps explores.
MaxStonesSteps == 2

\* SpecWhist explores the play of cards while the two sides together have
\* scored fewer than MaxPoints points.
MaxPoints == 1

\* The players of SpecWhist choose freely among the cards of a hand of
\* FreeCards cards or fewer.
FreeCards == 2

Colors == {BLACK, WHITE}

\* ---------------------------------------------------------------------
\* State
\* ---------------------------------------------------------------------
VARIABLES
    width,      \* Goban.width
    height,     \* Goban.height
    board,      \* Goban.board: board[row][col] in {None, BLACK, WHITE}
    last_row,   \* Goban.last_row (Unset for None)
    last_col,   \* Goban.last_col (Unset for None)
    call,       \* the call that has just ended, with its arguments (Idle once
                \* the caller has taken its result)
    ret,        \* what that call returned (or the exception it raised)
    pc,         \* where a running invert() stands ("ready": none is running)
    new_board,  \* invert's local new_board: the rows built so far
    invert_new_row, \* invert's local new_row: the cells built so far
    frames,     \* the activations of recurse_captures now on the call
                \* stack, outermost first
    visit_marks,    \* per cell, how many times the running traversal has
                \* set visit_table[row][col] = True (the table holds True
                \* where the count is not 0)
    rc_return,  \* what the recurse_captures call that has just returned to
                \* the activation on top of the stack has returned
    rc_calls,   \* the number of recurse_captures calls of the running
                \* traversal so far
    seats,      \* Whist.seats: the four Seat objects, each [active, player]
    data,       \* the data of each seat: [hand, card]
    whist       \* the Whist table: its own fields and those of Game it uses

vars == <<width, height, board, last_row, last_col, call, ret,
          pc, new_board, invert_new_row,
          frames, visit_marks, rc_return, rc_calls,
          seats, data, whist>>

\* The Goban.
goban == <<width, height, board, last_row, last_col>>

\* The locals of invert().
locals == <<pc, new_board, invert_new_row>>

\* The state of a traversal that runs call by call.
traversal == <<frames, visit_marks, rc_return, rc_calls>>

\* The Whist table and its seats.
table == <<seats, data, whist>>

\* What is not the Goban and its callers.
others == <<traversal, table>>

\* No recurse_captures call has returned to the activation on top.
Pending == [kind |-> "pending"]

\* No traversal is running call by call.
NoTraversal ==
    /\ frames = <<>>
    /\ visit_marks = <<>>
    /\ rc_return = Pending
    /\ rc_calls = 0

\* No table has been made.
NoTable ==
    /\ seats = <<>>
    /\ data = <<>>
    /\ whist = <<>>

\* No call has ended since the caller last took a result.
Idle == [op |-> "idle"]

\* Return values.
RetNone == [kind |-> "None"]
RetTuple(pos, color_captured, capture_list) ==
    [kind |-> "tuple", pos |-> pos, color_captured |-> color_captured,
     capture_list |-> capture_list]
RetRaise(exc) == [kind |-> "raise", exc |-> exc]

\* init_board building width rows of height cells.
init_board_swapped(w, h) == [r \in 0..(w - 1) |-> [c \in 0..(h - 1) |-> None]]

\* init_board (goban.py:46-54): a new, empty board of h rows of w cells.
init_board(w, h) == [r \in 0..(h - 1) |-> [c \in 0..(w - 1) |-> None]]

\* is_valid (goban.py:111-115)
is_valid(row, col) ==
    row >= 0 /\ row < height /\ col >= 0 /\ col < width

\* ---------------------------------------------------------------------
\* recurse_captures (goban.py:230-274).  The visitation table is the set
\* of cells marked True.  The result is [none, list, visit_table]: none
\* is TRUE when the call returns None, list is the returned list
\* otherwise, visit_table is the table as the call leaves it.
\* ---------------------------------------------------------------------
RECURSIVE recurse_captures(_, _, _, _, _)
RECURSIVE recurse_deltas(_, _, _, _, _, _, _)

\* recurse_deltas leaving the loop one delta early: the neighbour to the
\* right is never visited.
recurse_deltas_short(b, color, row, col, visit_table, i, return_list) ==
    IF i > Len(SQUARE_DELTAS) - 1
    THEN [none |-> FALSE, list |-> return_list, visit_table |-> visit_table]
    ELSE LET delta == SQUARE_DELTAS[i]
             recurse_return == recurse_captures(b, color, row + delta[1],
                                                col + delta[2], visit_table)
         IN  IF ~recurse_return.none /\ recurse_return.list = <<>>
             THEN [none |-> FALSE, list |-> <<>>,
                   visit_table |-> recurse_return.visit_table]
             ELSE IF ~recurse_return.none
                  THEN recurse_deltas(b, color, row, col,
                                      recurse_return.visit_table, i + 1,
                                      return_list \o recurse_return.list)
                  ELSE recurse_deltas(b, color, row, col,
                                      recurse_return.visit_table, i + 1,
                                      return_list)

\* The loop over SQUARE_DELTAS of recurse_captures (goban.py:259-274),
\* from delta i on, with return_list as accumulated so far.
recurse_deltas(b, color, row, col, visit_table, i, return_list) ==
    IF i > Len(SQUARE_DELTAS)
    THEN [none |-> FALSE, list |-> return_list, visit_table |-> visit_table]
    ELSE LET delta == SQUARE_DELTAS[i]
             recurse_return == recurse_captures(b, color, row + delta[1],
                                                col + delta[2], visit_table)
         IN  IF ~recurse_return.none /\ recurse_return.list = <<>>
             THEN [none |-> FALSE, list |-> <<>>,
                   visit_table |-> recurse_return.visit_table]
             ELSE IF ~recurse_return.none
                  THEN recurse_deltas(b, color, row, col,
                                      recurse_return.visit_table, i + 1,
                                      return_list \o recurse_return.list)
                  ELSE recurse_deltas(b, color, row, col,
                                      recurse_return.visit_table, i + 1,
                                      return_list)

\* recurse_captures with the empty-cell test dropped: an empty cell ends
\* the branch like a cell of the wrong colour, and no liberty is reported.
recurse_captures_no_liberty(b, color, row, col, visit_table) ==
    IF ~is_valid(row, col)
    THEN [none |-> TRUE, list |-> <<>>, visit_table |-> visit_table]
    ELSE IF <<row, col>> \in visit_table
    THEN [none |-> TRUE, list |-> <<>>, visit_table |-> visit_table]
    ELSE IF b[row][col] # color
    THEN [none |-> TRUE, list |-> <<>>, visit_table |-> visit_table]
    ELSE recurse_deltas(b, color, row, col,
                        visit_table \cup {<<row, col>>}, 1, << <<row, col>> >>)

\* recurse_captures marking the cell as visited before it looks at what
\* the cell holds: empty cells and cells of the other colour are marked too.
recurse_captures_mark_first(b, color, row, col, visit_table) ==
    IF ~is_valid(row, col)
    THEN [none |-> TRUE, list |-> <<>>, visit_table |-> visit_table]
    ELSE IF <<row, col>> \in visit_table
    THEN [none |-> TRUE, list |-> <<>>, visit_table |-> visit_table]
    ELSE IF b[row][col] = None
    THEN [none |-> FALSE, list |-> <<>>,
          visit_table |-> visit_table \cup {<<row, col>>}]
    ELSE IF b[row][col] # color
    THEN [none |-> TRUE, list |-> <<>>,
          visit_table |-> visit_table \cup {<<row, col>>}]
    ELSE recurse_deltas(b, color, row, col,
                        visit_table \cup {<<row, col>>}, 1, << <<row, col>> >>)

recurse_captures(b, color, row, col, visit_table) ==
    IF ~is_valid(row, col)
    THEN [none |-> TRUE, list |-> <<>>, visit_table |-> visit_table]
    ELSE IF <<row, col>> \in visit_table
    THEN [none |-> TRUE, list |-> <<>>, visit_table |-> visit_table]
    ELSE IF b[row][col] = None
    THEN [none |-> FALSE, list |-> <<>>, visit_table |-> visit_table]
    ELSE IF b[row][col] # color
    THEN [none |-> TRUE, list |-> <<>>, visit_table |-> visit_table]
    ELSE recurse_deltas(b, color, row, col,
                        visit_table \cup {<<row, col>>}, 1, << <<row, col>> >>)

\* ---------------------------------------------------------------------
\* go_find_captures (goban.py:153-228).  The result is
\* [raise, color, list]: raise names the exception the call ends with
\* ("" when it returns), color and list are the returned pair.
\* ---------------------------------------------------------------------
FoundReturn(color, list) == [raise |-> "", color |-> color, list |-> list]
FoundRaise(exc) == [raise |-> exc, color |-> None, list |-> <<>>]

\* The scan of the four neighbours (goban.py:163-177): the neighbours
\* holding a piece of the other colour, in the order of SQUARE_DELTAS.
RECURSIVE opponent_piece_list(_, _, _, _, _)
opponent_piece_list(b, color, row, col, i) ==
    IF i > Len(SQUARE_DELTAS)
    THEN <<>>
    ELSE LET new_row == row + SQUARE_DELTAS[i][1]
             new_col == col + SQUARE_DELTAS[i][2]
             rest == opponent_piece_list(b, color, row, col, i + 1)
         IN  IF is_valid(new_row, new_col)
                /\ b[new_row][new_col] # None
                /\ b[new_row][new_col] # color
             THEN << <<new_row, new_col>> >> \o rest
             ELSE rest

\* empty_space_adjacent after the scan (goban.py:164, 173-177).
empty_space_adjacent(b, row, col) ==
    \E i \in 1..Len(SQUARE_DELTAS) :
        LET new_row == row + SQUARE_DELTAS[i][1]
            new_col == col + SQUARE_DELTAS[i][2]
        IN  is_valid(new_row, new_col) /\ b[new_row][new_col] = None

\* The loop over opponent_piece_list (goban.py:185-200), from piece i on.
\* Each iteration builds a fresh visit_table; the result carries the
\* table of the last iteration, which the code keeps in scope.  extend()
\* of a None result raises TypeError.
RECURSIVE opponent_loop(_, _, _, _, _, _)

\* opponent_loop leaving the loop after its first iteration: only the
\* first opponent piece found is analysed.
opponent_loop_once(b, opponent_color, pieces, i, capture_list, visit_table) ==
    IF i > 1
    THEN [raise |-> "", capture_list |-> capture_list,
          visit_table |-> visit_table]
    ELSE LET found == recurse_captures(b, opponent_color, pieces[i][1],
                                       pieces[i][2], {})
         IN  IF found.none
             THEN [raise |-> "TypeError", capture_list |-> capture_list,
                   visit_table |-> found.visit_table]
             ELSE [raise |-> "", capture_list |-> capture_list \o found.list,
                   visit_table |-> found.visit_table]

opponent_loop(b, opponent_color, pieces, i, capture_list, visit_table) ==
    IF i > Len(pieces)
    THEN [raise |-> "", capture_list |-> capture_list,
          visit_table |-> visit_table]
    ELSE LET fresh == {}
             found == recurse_captures(b, opponent_color, pieces[i][1],
                                       pieces[i][2], fresh)
         IN  IF found.none
             THEN [raise |-> "TypeError", capture_list |-> capture_list,
                   visit_table |-> found.visit_table]
             ELSE opponent_loop(b, opponent_color, pieces, i + 1,
                                capture_list \o found.list,
                                found.visit_table)

\* go_find_captures checking the placed stone's own group before the
\* opponent's groups: a group without liberty is reported as a suicide
\* even when the play captures.
go_find_captures_own_first(b, row, col) ==
    LET color == b[row][col]
        pieces == opponent_piece_list(b, color, row, col, 1)
        opponent_color == b[pieces[Len(pieces)][1]][pieces[Len(pieces)][2]]
        own == recurse_captures(b, color, row, col, {})
    IN  IF color = None
        THEN FoundReturn(None, <<>>)
        ELSE IF pieces # <<>> \/ ~empty_space_adjacent(b, row, col)
        THEN IF ~own.none /\ own.list # <<>>
             THEN FoundReturn(color, own.list)
             ELSE LET looped == IF pieces = <<>>
                                THEN [raise |-> "", capture_list |-> <<>>,
                                      visit_table |-> {}]
                                ELSE opponent_loop(b, opponent_color, pieces,
                                                   1, <<>>, {})
                  IN  IF looped.raise # ""
                      THEN FoundRaise(looped.raise)
                      ELSE IF looped.capture_list # <<>>
                      THEN FoundReturn(opponent_color, looped.capture_list)
                      ELSE FoundReturn(None, <<>>)
        ELSE FoundReturn(None, <<>>)

go_find_captures(b, row, col) ==
    LET color == b[row][col]
        pieces == opponent_piece_list(b, color, row, col, 1)
        \* opponent_color is assigned at every opponent piece found; the
        \* last assignment stands.
        opponent_color == b[pieces[Len(pieces)][1]][pieces[Len(pieces)][2]]
    IN  IF color = None
        THEN FoundReturn(None, <<>>)
        ELSE IF pieces # <<>> \/ ~empty_space_adjacent(b, row, col)
        THEN LET looped == IF pieces = <<>>
                           THEN [raise |-> "", capture_list |-> <<>>,
                                 visit_table |-> {}]
                           ELSE opponent_loop(b, opponent_color, pieces, 1,
                                              <<>>, {})
             IN  IF looped.raise # ""
                 THEN FoundRaise(looped.raise)
                 ELSE IF looped.capture_list # <<>>
                 THEN FoundReturn(opponent_color, looped.capture_list)
                 ELSE IF pieces = <<>>
                 \* visit_table was never assigned: the loop body did not
                 \* run, and reading the name at goban.py:210-211 raises.
                 THEN FoundRaise("UnboundLocalError")
                 ELSE LET own == recurse_captures(b, color, row, col,
                                                  looped.visit_table)
                      IN  IF own.none
                          THEN FoundRaise("TypeError")
                          ELSE IF own.list # <<>>
                          THEN FoundReturn(color, own.list)
                          ELSE FoundReturn(None, <<>>)
        ELSE FoundReturn(None, <<>>)

\* The visitation tables the top-level recurse_captures calls of
\* go_find_captures start with, in call order (goban.py:186-211): a table
\* built at goban.py:195-197 for every opponent piece, and, for the check
\* of the placed piece itself, whatever visit_table holds when the loop is
\* left.  No call is made for the placed piece when pieces were captured,
\* nor when the name is unassigned.
analyzer_tables(b, row, col) ==
    LET color == b[row][col]
        pieces == opponent_piece_list(b, color, row, col, 1)
        opponent_color == b[pieces[Len(pieces)][1]][pieces[Len(pieces)][2]]
    IN  IF color = None \/ pieces = <<>>
        THEN <<>>
        ELSE LET looped == opponent_loop(b, opponent_color, pieces, 1, <<>>, {})
             IN  [i \in 1..Len(pieces) |-> {}]
                 \o (IF looped.raise = "" /\ looped.capture_list = <<>>
                     THEN <<looped.visit_table>>
                     ELSE <<>>)

\* ---------------------------------------------------------------------
\* Operations
\* ---------------------------------------------------------------------
\* The board with every cell of capture_list set to None (goban.py:144-145).
RECURSIVE clear_cells(_, _, _)

\* clear_cells taking each listed pair as (column, row).
clear_cells_swapped(b, capture_list, i) ==
    IF i > Len(capture_list)
    THEN b
    ELSE clear_cells([b EXCEPT ![capture_list[i][2]][capture_list[i][1]] = None],
                     capture_list, i + 1)

\* clear_cells leaving the first listed cell in place.
clear_cells_skip_first(b, capture_list, i) ==
    IF i > Len(capture_list)
    THEN b
    ELSE IF i = 1
    THEN clear_cells(b, capture_list, i + 1)
    ELSE clear_cells([b EXCEPT ![capture_list[i][1]][capture_list[i][2]] = None],
                     capture_list, i + 1)

clear_cells(b, capture_list, i) ==
    IF i > Len(capture_list)
    THEN b
    ELSE clear_cells([b EXCEPT ![capture_list[i][1]][capture_list[i][2]] = None],
                     capture_list, i + 1)

NumStones(b) ==
    Cardinality({p \in (DOMAIN b) \X (0..(width - 1)) : b[p[1]][p[2]] # None})

\* go_play from the placement on (goban.py:134-151): place the piece,
\* record the last move, find the captures, remove them, return.
place_and_capture(color, row, col) ==
    LET placed == [board EXCEPT ![row][col] = color]
        found == go_find_captures(placed, row, col)
    IN  /\ last_row' = row
        /\ last_col' = col
        /\ UNCHANGED <<width, height>>
        /\ IF found.raise # ""
           THEN /\ board' = placed
                /\ ret' = RetRaise(found.raise)
           ELSE /\ board' = IF found.color # None
                            THEN clear_cells(placed, found.list, 1)
                            ELSE placed
                /\ ret' = RetTuple(<<row, col>>, found.color, found.list)

\* go_play recording the last move before the bounds check.
go_play_last_before_check(color, row, col) ==
    /\ call = Idle
    /\ call' = [op |-> "go_play", color |-> color, row |-> row, col |-> col]
    /\ IF ~is_valid(row, col)
       THEN /\ ret' = RetNone
            /\ last_row' = row
            /\ last_col' = col
            /\ UNCHANGED <<width, height, board>>
       ELSE IF board[row][col] # None
       THEN /\ ret' = RetNone
            /\ UNCHANGED <<width, height, board, last_row, last_col>>
       ELSE place_and_capture(color, row, col)

\* go_play whose occupancy check only refuses a cell that holds a piece
\* of the colour played.
go_play_over_opponent(color, row, col) ==
    /\ call = Idle
    /\ call' = [op |-> "go_play", color |-> color, row |-> row, col |-> col]
    /\ IF ~is_valid(row, col)
       THEN /\ ret' = RetNone
            /\ UNCHANGED <<width, height, board, last_row, last_col>>
       ELSE IF board[row][col] = color
       THEN /\ ret' = RetNone
            /\ UNCHANGED <<width, height, board, last_row, last_col>>
       ELSE place_and_capture(color, row, col)

\* go_play (goban.py:117-151)
go_play(color, row, col) ==
    /\ call = Idle
    /\ call' = [op |-> "go_play", color |-> color, row |-> row, col |-> col]
    /\ IF ~is_valid(row, col)
       THEN /\ ret' = RetNone
            /\ UNCHANGED <<width, height, board, last_row, last_col>>
       ELSE IF board[row][col] # None
       THEN /\ ret' = RetNone
            /\ UNCHANGED <<width, height, board, last_row, last_col>>
       ELSE place_and_capture(color, row, col)

\* The value resize returns (goban.py:82-89): None from the bail-out, and
\* None again when the function runs off its end after init_board().
resize_result(w, h) ==
    IF w < MIN_SIZE \/ w > MAX_SIZE \/ h < MIN_SIZE \/ h > MAX_SIZE
    THEN RetNone
    ELSE RetNone

\* resize storing the width before it has looked at the height.
resize_width_first(w, h) ==
    /\ call = Idle
    /\ call' = [op |-> "resize", width |-> w, height |-> h]
    /\ ret' = resize_result(w, h)
    /\ IF w < MIN_SIZE \/ w > MAX_SIZE
       THEN UNCHANGED <<width, height, board, last_row, last_col>>
       ELSE IF h < MIN_SIZE \/ h > MAX_SIZE
       THEN /\ width' = w
            /\ UNCHANGED <<height, board, last_row, last_col>>
       ELSE /\ width' = w
            /\ height' = h
            /\ board' = init_board(w, h)
            /\ UNCHANGED <<last_row, last_col>>

\* resize (goban.py:79-89)
resize(w, h) ==
    /\ call = Idle
    /\ call' = [op |-> "resize", width |-> w, height |-> h]
    /\ ret' = resize_result(w, h)
    /\ IF w < MIN_SIZE \/ w > MAX_SIZE \/ h < MIN_SIZE \/ h > MAX_SIZE
       THEN UNCHANGED <<width, height, board, last_row, last_col>>
       ELSE /\ width' = w
            /\ height' = h
            /\ board' = init_board(w, h)
            /\ UNCHANGED <<last_row, last_col>>

\* invert_cell turning a white piece into a white piece.
invert_cell_white_stays(c) ==
    IF c = BLACK THEN WHITE ELSE IF c = WHITE THEN WHITE ELSE None

\* The colour invert gives a cell (goban.py:100-105).
invert_cell(c) ==
    IF c = BLACK THEN WHITE ELSE IF c = WHITE THEN BLACK ELSE None

\* The row invert builds from a row r of the board (goban.py:98-105).
inverted_row(r) == [c \in DOMAIN r |-> invert_cell(r[c])]

\* The grid invert builds from the grid b (goban.py:96-106).
inverted(b) == [r \in DOMAIN b |-> inverted_row(b[r])]

\* invert (goban.py:91-109)
invert ==
    /\ call = Idle
    /\ call' = [op |-> "invert"]
    /\ board' = inverted(board)
    /\ ret' = RetNone
    /\ UNCHANGED <<width, height, last_row, last_col>>

\* ---------------------------------------------------------------------
\* Inputs and specification
\* ---------------------------------------------------------------------
\* The caller takes the result of the call that has ended; the board is
\* then ready for the next call.
take_result ==
    /\ call # Idle
    /\ call' = Idle
    /\ ret' = RetNone
    /\ UNCHANGED <<width, height, board, last_row, last_col>>

\* Coordinates a caller passes to go_play: every cell of the board and,
\* past each of its four edges, the nearest coordinate outside it.
PlayCoords ==
    ((0..(height - 1)) \X (0..(width - 1)))
    \cup {<<0 - 1, 0>>, <<height, 0>>, <<0, 0 - 1>>, <<0, width>>,
          <<0 - 1, 0 - 1>>, <<height, width>>}

\* Dimensions a caller passes to resize: the smallest accepted one and the
\* nearest ones on either side of the accepted range.
ResizeDims == {MIN_SIZE - 1, MIN_SIZE, MAX_SIZE + 1}

\* The board after Goban() and resize(MIN_SIZE, MIN_SIZE): the smallest
\* board a game can set up, empty, with no last move.
Init ==
    /\ width = MIN_SIZE
    /\ height = MIN_SIZE
    /\ board = init_board(MIN_SIZE, MIN_SIZE)
    /\ last_row = Unset
    /\ last_col = Unset
    /\ call = Idle
    /\ ret = RetNone
    /\ pc = "ready"
    /\ new_board = <<>>
    /\ invert_new_row = <<>>
    /\ NoTraversal
    /\ NoTable

Play ==
    /\ NumStones(board) < MaxStones
    /\ \E color \in Colors, p \in PlayCoords : go_play(color, p[1], p[2])
    /\ UNCHANGED <<locals, others>>
Resize ==
    /\ \E w \in ResizeDims, h \in ResizeDims : resize(w, h)
    /\ UNCHANGED <<locals, others>>
Invert == invert /\ UNCHANGED <<locals, others>>
TakeResult == take_result /\ UNCHANGED <<locals, others>>

Next == Play \/ Resize \/ Invert \/ TakeResult

Spec == Init /\ [][Next]_vars

PlayDeep ==
    /\ NumStones(board) < MaxStonesDeep
    /\ \E color \in Colors, p \in PlayCoords : go_play(color, p[1], p[2])
    /\ UNCHANGED <<locals, others>>

NextDeep == PlayDeep \/ Resize \/ Invert \/ TakeResult

SpecDeep == Init /\ [][NextDeep]_vars

\* ---------------------------------------------------------------------
\* invert statement by statement (goban.py:96-108), and boards of more
\* than one size
\* ---------------------------------------------------------------------
\* new_board = [] (goban.py:96)
invert_begin ==
    /\ pc = "ready"
    /\ call = Idle
    /\ pc' = "rows"
    /\ new_board' = <<>>
    /\ UNCHANGED <<width, height, board, last_row, last_col, call, ret,
                   invert_new_row>>

\* for r in self.board: invert_new_row = [] (goban.py:97-98); the row reached is
\* the one after the rows already appended.
invert_next_row ==
    /\ pc = "rows"
    /\ Len(new_board) < Cardinality(DOMAIN board)
    /\ pc' = "cells"
    /\ invert_new_row' = <<>>
    /\ UNCHANGED <<width, height, board, last_row, last_col, call, ret,
                   new_board>>

\* for c in r: invert_new_row.append(...) (goban.py:99-105)
invert_next_cell ==
    /\ pc = "cells"
    /\ Len(invert_new_row) < Cardinality(DOMAIN board[Len(new_board)])
    /\ invert_new_row' = Append(invert_new_row,
                         invert_cell(board[Len(new_board)][Len(invert_new_row)]))
    /\ UNCHANGED <<width, height, board, last_row, last_col, call, ret,
                   pc, new_board>>

\* invert_end_row storing the finished row into the board as well.
invert_end_row_in_place ==
    /\ pc = "cells"
    /\ Len(invert_new_row) = Cardinality(DOMAIN board[Len(new_board)])
    /\ new_board' = Append(new_board, invert_new_row)
    /\ board' = [board EXCEPT ![Len(new_board)] =
                    [c \in DOMAIN board[Len(new_board)] |-> invert_new_row[c + 1]]]
    /\ pc' = "rows"
    /\ invert_new_row' = <<>>
    /\ UNCHANGED <<width, height, last_row, last_col, call, ret>>

\* new_board.append(invert_new_row) (goban.py:106)
invert_end_row ==
    /\ pc = "cells"
    /\ Len(invert_new_row) = Cardinality(DOMAIN board[Len(new_board)])
    /\ new_board' = Append(new_board, invert_new_row)
    /\ pc' = "rows"
    /\ invert_new_row' = <<>>
    /\ UNCHANGED <<width, height, board, last_row, last_col, call, ret>>

\* self.board = new_board (goban.py:108), and invert returns.
invert_install ==
    /\ pc = "rows"
    /\ Len(new_board) = Cardinality(DOMAIN board)
    /\ board' = [r \in 0..(Len(new_board) - 1) |->
                   [c \in 0..(Len(new_board[r + 1]) - 1) |->
                      new_board[r + 1][c + 1]]]
    /\ pc' = "ready"
    /\ new_board' = <<>>
    /\ call' = [op |-> "invert"]
    /\ ret' = RetNone
    /\ UNCHANGED <<width, height, last_row, last_col, invert_new_row>>

\* Dimensions a caller passes to resize in SpecSteps: the two smallest
\* accepted ones and the nearest ones outside the accepted range.
ResizeDimsSteps == {MIN_SIZE - 1, MIN_SIZE, MIN_SIZE + 1, MAX_SIZE + 1}

PlaySteps ==
    /\ pc = "ready"
    /\ NumStones(board) < MaxStonesSteps
    /\ \E color \in Colors, p \in PlayCoords : go_play(color, p[1], p[2])
    /\ UNCHANGED <<locals, others>>
ResizeSteps ==
    /\ pc = "ready"
    /\ \E w \in ResizeDimsSteps, h \in ResizeDimsSteps : resize(w, h)
    /\ UNCHANGED <<locals, others>>
TakeResultSteps == pc = "ready" /\ take_result /\ UNCHANGED <<locals, others>>
InvertBegin == invert_begin /\ UNCHANGED others
InvertNextRow == invert_next_row /\ UNCHANGED others
InvertNextCell == invert_next_cell /\ UNCHANGED others
InvertEndRow == invert_end_row /\ UNCHANGED others
InvertInstall == invert_install /\ UNCHANGED others

NextSteps ==
    \/ PlaySteps \/ ResizeSteps \/ TakeResultSteps
    \/ InvertBegin \/ InvertNextRow \/ InvertNextCell \/ InvertEndRow
    \/ InvertInstall

SpecSteps == Init /\ [][NextSteps]_vars

\* ---------------------------------------------------------------------
\* recurse_captures called on its own, on any board of the smallest size
\* ---------------------------------------------------------------------
RetList(list) == [kind |-> "list", list |-> list]

\* A call of recurse_captures with a visitation table without marks.
analyze(color, row, col) ==
    LET found == recurse_captures(board, color, row, col, {})
    IN  /\ call = Idle
        /\ call' = [op |-> "recurse_captures", color |-> color,
                    row |-> row, col |-> col]
        /\ ret' = IF found.none THEN RetNone ELSE RetList(found.list)
        /\ UNCHANGED <<width, height, board, last_row, last_col>>

\* Any grid of MIN_SIZE rows of MIN_SIZE cells, as the board traversed.
InitAnalyze ==
    /\ width = MIN_SIZE
    /\ height = MIN_SIZE
    /\ board \in [0..(MIN_SIZE - 1) ->
                    [0..(MIN_SIZE - 1) -> Colors \cup {None}]]
    /\ last_row = Unset
    /\ last_col = Unset
    /\ call = Idle
    /\ ret = RetNone
    /\ pc = "ready"
    /\ new_board = <<>>
    /\ invert_new_row = <<>>
    /\ NoTraversal
    /\ NoTable

Analyze ==
    /\ \E color \in Colors, p \in PlayCoords : analyze(color, p[1], p[2])
    /\ UNCHANGED <<locals, others>>

NextAnalyze == Analyze \/ TakeResult

SpecAnalyze == InitAnalyze /\ [][NextAnalyze]_vars

\* ---------------------------------------------------------------------
\* recurse_captures call by call (goban.py:230-274).  Each activation on
\* the stack is [color, row, col, i, return_list]: its arguments, the
\* index in SQUARE_DELTAS its loop has reached (0 before the checks at
\* the head of the function have run) and its local return_list.
\* ---------------------------------------------------------------------
Activation(color, row, col) ==
    [color |-> color, row |-> row, col |-> col, i |-> 0,
     return_list |-> <<>>]

Top == frames[Len(frames)]

\* The activation on top returns value: to the activation below it, or,
\* when it is the outermost one, to the caller of the traversal.
rc_pop(value) ==
    /\ frames' = SubSeq(frames, 1, Len(frames) - 1)
    /\ IF Len(frames) = 1
       THEN /\ call' = [op |-> "recurse_captures", color |-> Top.color,
                        row |-> Top.row, col |-> Top.col]
            /\ ret' = value
            /\ rc_return' = Pending
       ELSE /\ rc_return' = value
            /\ UNCHANGED <<call, ret>>

\* A caller calls recurse_captures on a stone of the board, with the
\* stone's colour and a table without marks.
traverse_begin(row, col) ==
    /\ call = Idle
    /\ frames = <<>>
    /\ is_valid(row, col)
    /\ board[row][col] # None
    /\ frames' = <<Activation(board[row][col], row, col)>>
    /\ visit_marks' = [r \in 0..(height - 1) |-> [c \in 0..(width - 1) |-> 0]]
    /\ rc_return' = Pending
    /\ rc_calls' = 1
    /\ UNCHANGED <<width, height, board, last_row, last_col, call, ret>>

\* rc_enter without the assignment to the table.
rc_enter_no_mark ==
    /\ frames # <<>>
    /\ Top.i = 0
    /\ IF ~is_valid(Top.row, Top.col)
       THEN rc_pop(RetNone) /\ UNCHANGED visit_marks
       ELSE IF visit_marks[Top.row][Top.col] # 0
       THEN rc_pop(RetNone) /\ UNCHANGED visit_marks
       ELSE IF board[Top.row][Top.col] = None
       THEN rc_pop(RetList(<<>>)) /\ UNCHANGED visit_marks
       ELSE IF board[Top.row][Top.col] # Top.color
       THEN rc_pop(RetNone) /\ UNCHANGED visit_marks
       ELSE /\ frames' = [frames EXCEPT ![Len(frames)] =
                            [Top EXCEPT !.i = 1,
                                        !.return_list =
                                            << <<Top.row, Top.col>> >>]]
            /\ UNCHANGED <<visit_marks, rc_return, call, ret>>
    /\ UNCHANGED <<width, height, board, last_row, last_col, rc_calls>>

\* The head of the function (goban.py:232-258): the four checks, then the
\* mark and return_list = [(row, col)].
rc_enter ==
    /\ frames # <<>>
    /\ Top.i = 0
    /\ IF ~is_valid(Top.row, Top.col)
       THEN rc_pop(RetNone) /\ UNCHANGED visit_marks
       ELSE IF visit_marks[Top.row][Top.col] # 0
       THEN rc_pop(RetNone) /\ UNCHANGED visit_marks
       ELSE IF board[Top.row][Top.col] = None
       THEN rc_pop(RetList(<<>>)) /\ UNCHANGED visit_marks
       ELSE IF board[Top.row][Top.col] # Top.color
       THEN rc_pop(RetNone) /\ UNCHANGED visit_marks
       ELSE /\ visit_marks' =
                 [visit_marks EXCEPT ![Top.row][Top.col] = @ + 1]
            /\ frames' = [frames EXCEPT ![Len(frames)] =
                            [Top EXCEPT !.i = 1,
                                        !.return_list =
                                            << <<Top.row, Top.col>> >>]]
            /\ UNCHANGED <<rc_return, call, ret>>
    /\ UNCHANGED <<width, height, board, last_row, last_col, rc_calls>>

\* The recursive call of the loop (goban.py:261-262).
rc_call ==
    /\ frames # <<>>
    /\ Top.i \in 1..Len(SQUARE_DELTAS)
    /\ rc_return = Pending
    /\ frames' = Append(frames,
                        Activation(Top.color,
                                   Top.row + SQUARE_DELTAS[Top.i][1],
                                   Top.col + SQUARE_DELTAS[Top.i][2]))
    /\ rc_calls' = rc_calls + 1
    /\ UNCHANGED <<width, height, board, last_row, last_col, call, ret,
                   visit_marks, rc_return>>

\* What the loop does with recurse_return (goban.py:263-271).
rc_resume ==
    /\ frames # <<>>
    /\ Top.i \in 1..Len(SQUARE_DELTAS)
    /\ rc_return # Pending
    /\ IF rc_return = RetList(<<>>)
       THEN rc_pop(RetList(<<>>))
       ELSE /\ frames' = [frames EXCEPT ![Len(frames)] =
                   [Top EXCEPT !.i = @ + 1,
                               !.return_list =
                                   IF rc_return.kind = "list"
                                   THEN @ \o rc_return.list
                                   ELSE @]]
            /\ rc_return' = Pending
            /\ UNCHANGED <<call, ret>>
    /\ UNCHANGED <<width, height, board, last_row, last_col, visit_marks,
                   rc_calls>>

\* return return_list (goban.py:274), once the loop is over.
rc_finish ==
    /\ frames # <<>>
    /\ Top.i > Len(SQUARE_DELTAS)
    /\ rc_pop(RetList(Top.return_list))
    /\ UNCHANGED <<width, height, board, last_row, last_col, visit_marks,
                   rc_calls>>

\* The caller takes the result; the table of the traversal goes with it.
traverse_take_result ==
    /\ take_result
    /\ visit_marks' = <<>>
    /\ rc_calls' = 0
    /\ UNCHANGED <<frames, rc_return>>

InitTraverse == InitAnalyze

TraverseBegin ==
    /\ \E p \in PlayCoords : traverse_begin(p[1], p[2])
    /\ UNCHANGED <<locals, table>>
RcEnter == rc_enter /\ UNCHANGED <<locals, table>>
RcCall == rc_call /\ UNCHANGED <<locals, table>>
RcResume == rc_resume /\ UNCHANGED <<locals, table>>
RcFinish == rc_finish /\ UNCHANGED <<locals, table>>
TraverseTakeResult == traverse_take_result /\ UNCHANGED <<locals, table>>

NextTraverse ==
    \/ TraverseBegin \/ RcEnter \/ RcCall \/ RcResume \/ RcFinish
    \/ TraverseTakeResult

SpecTraverse == InitTraverse /\ [][NextTraverse]_vars

\* ---------------------------------------------------------------------
\* Seat (seat.py:19-48).  A seat is [active, player]; its name does not
\* change and is left out.  The result of sit and stand is
\* [seat, result]: the seat as the call leaves it and the value returned.
\* ---------------------------------------------------------------------
Players == {"alice", "bob"}

RetBool(b) == [kind |-> "bool", value |-> b]

\* Seat.__init__ (seat.py:24-29)
NewSeat == [active |-> FALSE, player |-> None]

\* sit without the test of self.player.
sit_over(s, player, activate) ==
    [seat |-> [player |-> player,
               active |-> IF activate THEN TRUE ELSE s.active],
     result |-> TRUE]

\* Seat.sit (seat.py:31-41)
sit(s, player, activate) ==
    IF s.player = None
    THEN [seat |-> [player |-> player,
                    active |-> IF activate THEN TRUE ELSE s.active],
          result |-> TRUE]
    ELSE [seat |-> s, result |-> FALSE]

\* Seat.stand (seat.py:43-48)
stand(s) ==
    IF s.player # None
    THEN [seat |-> [s EXCEPT !.player = None], result |-> TRUE]
    ELSE [seat |-> s, result |-> FALSE]

\* A caller has seats[i] sit a player down, or stand up.
seat_sit(i, player, activate) ==
    /\ call = Idle
    /\ call' = [op |-> "sit", seat |-> i, player |-> player,
                activate |-> activate]
    /\ seats' = [seats EXCEPT ![i] = sit(seats[i], player, activate).seat]
    /\ ret' = RetBool(sit(seats[i], player, activate).result)

seat_stand(i) ==
    /\ call = Idle
    /\ call' = [op |-> "stand", seat |-> i]
    /\ seats' = [seats EXCEPT ![i] = stand(seats[i]).seat]
    /\ ret' = RetBool(stand(seats[i]).result)

\* The four seats as Whist.__init__ makes them (whist.py:37-42).
InitSeat ==
    /\ width = MIN_SIZE
    /\ height = MIN_SIZE
    /\ board = init_board(MIN_SIZE, MIN_SIZE)
    /\ last_row = Unset
    /\ last_col = Unset
    /\ call = Idle
    /\ ret = RetNone
    /\ pc = "ready"
    /\ new_board = <<>>
    /\ invert_new_row = <<>>
    /\ NoTraversal
    /\ seats = [i \in 1..4 |-> NewSeat]
    /\ data = <<>>
    /\ whist = <<>>

SeatSit ==
    /\ \E i \in 1..4, player \in Players, activate \in BOOLEAN :
          seat_sit(i, player, activate)
    /\ UNCHANGED <<goban, locals, traversal, data, whist>>
SeatStand ==
    /\ \E i \in 1..4 : seat_stand(i)
    /\ UNCHANGED <<goban, locals, traversal, data, whist>>
SeatTakeResult == take_result /\ UNCHANGED <<locals, others>>

NextSeat == SeatSit \/ SeatStand \/ SeatTakeResult

SpecSeat == InitSeat /\ [][NextSeat]_vars

\* ---------------------------------------------------------------------
\* Whist (whist/whist.py).  What Whist uses of Game, Hand, playing_card,
\* trick and State is not part of the source at hand; it is modelled by
\* what whist.py expects of it:
\*   a card is a number of 0..51, thirteen ranks of each of four suits;
\*   a hand is the set of its cards, a trick the sequence of its cards;
\*   get_seat_of_player gives the seat a player sits at, next_seat the
\*   following seat around the table, handle_trick the highest trump of
\*   the trick or, without a trump, the highest card of the suit led.
\* A seat is its index in Whist.seats (1 North, 2 East, 3 South, 4 West).
\* ---------------------------------------------------------------------
\* for i in range(13) (whist.py:158) and == 13 (whist.py:332)
HAND_SIZE == 13
\* > 6 and - 6 (whist.py:394-400)
BOOK == 6

Suits == <<"clubs", "diamonds", "hearts", "spades">>
Cards == 0..(4 * HAND_SIZE - 1)
suit_of(card) == Suits[(card \div HAND_SIZE) + 1]
rank_of(card) == card % HAND_SIZE

\* No seat (a seat that is None) and no card (a card that is None).
NoSeat == 0
NoCard == 0 - 1

\* A play string that names no card.
Bogus == 4 * HAND_SIZE

\* str_to_card: the card a play string names, or None.
str_to_card(play_str) == IF play_str \in Cards THEN play_str ELSE NoCard

\* hand_has_suit
hand_has_suit(hand, a_suit) == \E c \in hand : suit_of(c) = a_suit

\* Game.get_seat_of_player
get_seat_of_player(player) ==
    IF \E i \in 1..4 : seats[i].player = player
    THEN CHOOSE i \in 1..4 : seats[i].player = player
    ELSE NoSeat

\* Game.next_seat
next_seat(seat) == (seat % 4) + 1

\* handle_trick: the card that wins the trick.
handle_trick(a_trick, trump_suit) ==
    LET trumps == {i \in 1..Len(a_trick) : suit_of(a_trick[i]) = trump_suit}
        led == {i \in 1..Len(a_trick) :
                   suit_of(a_trick[i]) = suit_of(a_trick[1])}
        among == IF trumps # {} THEN trumps ELSE led
    IN  a_trick[CHOOSE i \in among :
                   \A j \in among : rank_of(a_trick[j]) <= rank_of(a_trick[i])]

\* Whist.__init__ (whist.py:31-62); active is Game's flag, finished tells
\* that Game.finish has been called.
NewWhist ==
    [state |-> "need_players", goal |-> 5, trick |-> <<>>,
     trump_suit |-> None, led_suit |-> None, turn |-> NoSeat,
     dealer |-> NoSeat, ns |-> [score |-> 0, tricks |-> 0],
     ew |-> [score |-> 0, tricks |-> 0], active |-> FALSE,
     finished |-> FALSE]

NewData == [hand |-> {}, card |-> NoCard]

\* The goal strings a player sends, and str.isdigit and int on them.
GoalStrs == {"0", "1", "7", "x", "-1"}
isdigit(goal_str) == goal_str \in {"0", "1", "7"}
int(goal_str) == CASE goal_str = "0" -> 0
                   [] goal_str = "1" -> 1
                   [] goal_str = "7" -> 7

\* set_goal taking any number.
set_goal_any(w, goal_str) ==
    IF ~isdigit(goal_str)
    THEN w
    ELSE [w EXCEPT !.goal = int(goal_str)]

\* set_goal (whist.py:120-133): the table with the goal set, or as it was.
set_goal(w, goal_str) ==
    IF ~isdigit(goal_str)
    THEN w
    ELSE IF int(goal_str) < 1
    THEN w
    ELSE [w EXCEPT !.goal = int(goal_str)]

\* clear_trick (whist.py:135-143)
clear_trick(t) ==
    [whist |-> [t.whist EXCEPT !.trick = <<>>, !.led_suit = None],
     data |-> [i \in 1..4 |-> [t.data[i] EXCEPT !.card = NoCard]]]

\* The decks a shuffle leaves: position p of the deck holds the card
\* (a * p + b) % 52, for these <<a, b>>.
Shuffles == {<<1, 0>>, <<3, 7>>, <<21, 30>>}
deck_card(shuffle, p) == (shuffle[1] * p + shuffle[2]) % (4 * HAND_SIZE)

\* new_deal (whist.py:145-181): the cards go round the seats one at a
\* time; the dealer's last card sets the trump suit.
new_deal(t, shuffle) ==
    [whist |-> [t.whist EXCEPT
                  !.trump_suit =
                      suit_of(deck_card(shuffle,
                                        4 * (HAND_SIZE - 1)
                                        + (t.whist.dealer - 1))),
                  !.ns.tricks = 0,
                  !.ew.tricks = 0],
     data |-> [i \in 1..4 |->
                 [t.data[i] EXCEPT
                    !.hand = {deck_card(shuffle, 4 * k + (i - 1)) :
                                 k \in 0..(HAND_SIZE - 1)}]]]

\* play without the test of the suit led.
play_any_suit(t, player, play_str) ==
    LET seat == get_seat_of_player(player)
        potential_card == str_to_card(play_str)
        refused == [result |-> NoCard, whist |-> t.whist, data |-> t.data]
    IN  IF seat = NoSeat
        THEN refused
        ELSE IF seat # t.whist.turn
        THEN refused
        ELSE IF potential_card = NoCard
        THEN refused
        ELSE IF potential_card \notin t.data[seat].hand
        THEN refused
        ELSE [result |-> potential_card,
              whist |-> [t.whist EXCEPT
                           !.led_suit = IF @ = None
                                        THEN suit_of(potential_card)
                                        ELSE @,
                           !.trick = Append(@, potential_card)],
              data |-> [t.data EXCEPT
                          ![seat].card = potential_card,
                          ![seat].hand = @ \ {potential_card}]]

\* play (whist.py:208-255): [result, whist, data], result being the card
\* played, or NoCard when play returns False.
play(t, player, play_str) ==
    LET seat == get_seat_of_player(player)
        potential_card == str_to_card(play_str)
        refused == [result |-> NoCard, whist |-> t.whist, data |-> t.data]
    IN  IF seat = NoSeat
        THEN refused
        ELSE IF seat # t.whist.turn
        THEN refused
        ELSE IF potential_card = NoCard
        THEN refused
        ELSE IF potential_card \notin t.data[seat].hand
        THEN refused
        ELSE IF /\ t.whist.led_suit # None
                /\ suit_of(potential_card) # t.whist.led_suit
                /\ hand_has_suit(t.data[seat].hand, t.whist.led_suit)
        THEN refused
        ELSE [result |-> potential_card,
              whist |-> [t.whist EXCEPT
                           !.led_suit = IF @ = None
                                        THEN suit_of(potential_card)
                                        ELSE @,
                           !.trick = Append(@, potential_card)],
              data |-> [t.data EXCEPT
                          ![seat].card = potential_card,
                          ![seat].hand = @ \ {potential_card}]]

\* finish_trick (whist.py:361-389)
finish_trick(t) ==
    LET winner == handle_trick(t.whist.trick, t.whist.trump_suit)
        winning_seat_list == {x \in 1..4 : t.data[x].card = winner}
        winning_seat == CHOOSE x \in winning_seat_list : TRUE
    IN  IF Cardinality(winning_seat_list) # 1
        THEN t
        ELSE clear_trick(
               [whist |-> [t.whist EXCEPT
                             !.ns.tricks = IF winning_seat \in {1, 3}
                                           THEN @ + 1 ELSE @,
                             !.ew.tricks = IF winning_seat \in {1, 3}
                                           THEN @ ELSE @ + 1,
                             !.turn = winning_seat],
                data |-> t.data])

\* finish_hand (whist.py:391-404)
finish_hand(w) ==
    IF w.ns.tricks > BOOK
    THEN [w EXCEPT !.ns.score = @ + (w.ns.tricks - BOOK)]
    ELSE [w EXCEPT !.ew.score = @ + (w.ew.tricks - BOOK)]

\* find_winner (whist.py:406-414): "ns", "ew" or None.
find_winner(w) ==
    IF w.ns.score >= w.goal
    THEN "ns"
    ELSE IF w.ew.score >= w.goal
    THEN "ew"
    ELSE None

\* card_played passing the turn on whatever the trick holds.
card_played_rotate_always(t, shuffle) ==
    [whist |-> [t.whist EXCEPT !.turn = next_seat(@)], data |-> t.data]

\* What handle does once a card has hit the table (whist.py:323-356);
\* shuffle is the deck a new deal would be made from.
card_played(t, shuffle) ==
    IF Len(t.whist.trick) = 4
    THEN LET done == finish_trick(t)
         IN  IF done.whist.ns.tricks + done.whist.ew.tricks = HAND_SIZE
             THEN LET scored == [done EXCEPT !.whist = finish_hand(@)]
                  IN  IF find_winner(scored.whist) # None
                      THEN [scored EXCEPT !.whist.finished = TRUE]
                      ELSE LET dealt ==
                                 new_deal([scored EXCEPT !.whist.dealer =
                                                             next_seat(@)],
                                          shuffle)
                           IN  [dealt EXCEPT !.whist.turn =
                                         next_seat(dealt.whist.dealer)]
             ELSE done
    ELSE [whist |-> [t.whist EXCEPT !.turn = next_seat(@)], data |-> t.data]

Table == [whist |-> whist, data |-> data]

\* The words of the commands (whist.py:290-316).
GoalWords == {"goal", "score", "sc", "g"}
DoneWords == {"done", "ready", "d", "r"}
ConfigWords == {"config", "setup", "conf"}
HandWords == {"hand", "inventory", "inv", "i"}
PlayWords == {"play", "move", "pl", "mv"}

\* handle (whist.py:276-359) for a command that is not one of Game's
\* common commands: command_bits is the command split into words.  The
\* call is recorded with card_played, handle's local of that name (NoCard
\* where it is False).
handle(player, command_bits, shuffle) ==
    LET primary == command_bits[1]
        played == play(Table, player, command_bits[2])
        after == IF played.result # NoCard
                 THEN card_played([whist |-> played.whist,
                                   data |-> played.data], shuffle)
                 ELSE Table
    IN  /\ call = Idle
        /\ ret' = RetNone
        /\ UNCHANGED seats
        /\ IF whist.state = "setup" /\ primary \in GoalWords
              /\ Len(command_bits) = 2
           THEN /\ whist' = set_goal(whist, command_bits[2])
                /\ UNCHANGED data
                /\ call' = [op |-> "handle", player |-> player,
                            command_bits |-> command_bits,
                            card_played |-> NoCard]
           ELSE IF whist.state = "setup" /\ primary \in DoneWords
           THEN /\ whist' = [whist EXCEPT !.state = "need_players"]
                /\ UNCHANGED data
                /\ call' = [op |-> "handle", player |-> player,
                            command_bits |-> command_bits,
                            card_played |-> NoCard]
           ELSE IF whist.state = "need_players" /\ primary \in ConfigWords
           THEN /\ whist' = [whist EXCEPT !.state = "setup"]
                /\ UNCHANGED data
                /\ call' = [op |-> "handle", player |-> player,
                            command_bits |-> command_bits,
                            card_played |-> NoCard]
           ELSE IF whist.state = "playing" /\ primary \in PlayWords
                   /\ Len(command_bits) = 2
           THEN /\ whist' = after.whist
                /\ data' = after.data
                /\ call' = [op |-> "handle", player |-> player,
                            command_bits |-> command_bits,
                            card_played |-> played.result]
           ELSE /\ UNCHANGED <<whist, data>>
                /\ call' = [op |-> "handle", player |-> player,
                            command_bits |-> command_bits,
                            card_played |-> NoCard]

\* tick (whist.py:257-274); shuffle is the deck the deal is made from.
tick(shuffle) ==
    /\ call = Idle
    /\ call' = [op |-> "tick"]
    /\ ret' = RetNone
    /\ UNCHANGED seats
    /\ IF /\ whist.state = "need_players"
          /\ \A i \in 1..4 : seats[i].player # None
          /\ whist.active
       THEN LET cleared == clear_trick([whist |-> [whist EXCEPT
                                                     !.state = "playing"],
                                        data |-> data])
                dealt == new_deal([cleared EXCEPT !.whist.dealer = 1],
                                  shuffle)
            IN  /\ whist' = [dealt.whist EXCEPT
                               !.turn = next_seat(dealt.whist.dealer)]
                /\ data' = dealt.data
       ELSE UNCHANGED <<whist, data>>

\* Game's common commands, as far as the table depends on them: a player
\* who has no seat takes the first seat without a player, and the table
\* is made active.
WhistPlayers == <<"alice", "bob", "carol", "dave", "eve">>

join(player) ==
    /\ call = Idle
    /\ get_seat_of_player(player) = NoSeat
    /\ \E i \in 1..4 :
          /\ seats[i].player = None
          /\ \A j \in 1..(i - 1) : seats[j].player # None
          /\ seats' = [seats EXCEPT ![i] = sit(seats[i], player, TRUE).seat]
    /\ UNCHANGED <<whist, data, call, ret>>

set_active(flag) ==
    /\ call = Idle
    /\ whist.active # flag
    /\ whist' = [whist EXCEPT !.active = flag]
    /\ UNCHANGED <<seats, data, call, ret>>

\* The play strings a player sends.  A player holding more than
\* FreeCards cards sends the lowest card that may be played (of the suit
\* led when the hand has it), the lowest card of another suit, a string
\* that names no card and the lowest card of the next seat's hand; a
\* player holding FreeCards cards or fewer sends any card of the hand
\* as well.
Lowest(hand) == CHOOSE c \in hand : \A d \in hand : c <= d
InSuit(hand, a_suit) == {c \in hand : suit_of(c) = a_suit}
Some(hand) == IF hand = {} THEN {} ELSE {Lowest(hand)}

PlayStrs(player) ==
    LET seat == get_seat_of_player(player)
        hand == IF seat = NoSeat THEN {} ELSE data[seat].hand
        other == IF seat = NoSeat THEN {} ELSE data[next_seat(seat)].hand
        led == InSuit(hand, whist.led_suit)
    IN  {Bogus}
        \cup Some(IF led = {} THEN hand ELSE led)
        \cup Some(IF led = {} THEN {} ELSE hand \ led)
        \cup Some(other)
        \cup (IF Cardinality(hand) <= FreeCards THEN hand ELSE {})

\* The other commands a player sends.
Commands ==
    {<<"goal", g>> : g \in GoalStrs}
    \cup {<<"goal">>, <<"done">>, <<"config">>, <<"hand">>, <<"play">>,
          <<"dance">>}

InitWhist ==
    /\ width = MIN_SIZE
    /\ height = MIN_SIZE
    /\ board = init_board(MIN_SIZE, MIN_SIZE)
    /\ last_row = Unset
    /\ last_col = Unset
    /\ call = Idle
    /\ ret = RetNone
    /\ pc = "ready"
    /\ new_board = <<>>
    /\ invert_new_row = <<>>
    /\ NoTraversal
    /\ seats = [i \in 1..4 |-> NewSeat]
    /\ data = [i \in 1..4 |-> NewData]
    /\ whist = NewWhist

Elsewhere == UNCHANGED <<goban, locals, traversal>>

Join ==
    /\ \E i \in 1..Len(WhistPlayers) :
          /\ \A j \in 1..(i - 1) :
                get_seat_of_player(WhistPlayers[j]) # NoSeat
          /\ join(WhistPlayers[i])
    /\ Elsewhere
SetActive == (\E flag \in BOOLEAN : set_active(flag)) /\ Elsewhere
Tick == (\E shuffle \in Shuffles : tick(shuffle)) /\ Elsewhere
HandlePlay ==
    /\ whist.ns.score + whist.ew.score < MaxPoints
    /\ \E i \in 1..Len(WhistPlayers), shuffle \in Shuffles :
          \E play_str \in PlayStrs(WhistPlayers[i]) :
             handle(WhistPlayers[i], <<"play", play_str>>, shuffle)
    /\ Elsewhere
HandleOther ==
    /\ \E command_bits \in Commands, shuffle \in Shuffles :
          handle(WhistPlayers[1], command_bits, shuffle)
    /\ Elsewhere
WhistTakeResult == take_result /\ UNCHANGED <<locals, others>>

NextWhist ==
    \/ Join \/ SetActive \/ Tick \/ HandlePlay \/ HandleOther
    \/ WhistTakeResult

SpecWhist == InitWhist /\ [][NextWhist]_vars

\* ---------------------------------------------------------------------
\* Go's rules of capture, stated on a grid without reference to the
\* traversal: the vocabulary of the properties below.
\* ---------------------------------------------------------------------
Range(s) == {s[i] : i \in 1..Len(s)}

OnBoard(b, p) == p[1] \in DOMAIN b /\ p[2] \in DOMAIN b[p[1]]

At(b, p) == b[p[1]][p[2]]

CellsOf(b) == UNION {{<<r, c>> : c \in DOMAIN b[r]} : r \in DOMAIN b}

StonesOf(b) == {p \in CellsOf(b) : At(b, p) # None}

\* The orthogonal neighbours of p that lie on the board.
Adjacent(b, p) ==
    {q \in {<<p[1] - 1, p[2]>>, <<p[1] + 1, p[2]>>,
            <<p[1], p[2] - 1>>, <<p[1], p[2] + 1>>} : OnBoard(b, q)}

Around(b, S) == UNION {Adjacent(b, p) : p \in S}

\* The maximal 4-connected same-coloured group that contains the stone p.
RECURSIVE GrowGroup(_, _, _)
GrowGroup(b, color, S) ==
    LET more == {q \in Around(b, S) : At(b, q) = color} \ S
    IN  IF more = {} THEN S ELSE GrowGroup(b, color, S \cup more)

GroupAt(b, p) == GrowGroup(b, At(b, p), {p})

LibertiesOf(b, G) == {q \in Around(b, G) : At(b, q) = None}

Opponent(color) == IF color = BLACK THEN WHITE ELSE BLACK

\* The stones of the opponent groups next to the stone p that have no
\* liberty on b.
DeadOpponents(b, p) ==
    UNION {GroupAt(b, q) :
             q \in {n \in Adjacent(b, p) :
                      /\ At(b, n) = Opponent(At(b, p))
                      /\ LibertiesOf(b, GroupAt(b, n)) = {}}}

InRange(n) == n >= 3 /\ n <= 26

\* A go_play call ends in this step; PlayAt is the point played.
PlayEnds == call = Idle /\ call'.op = "go_play"
PlayAt == <<call'.row, call'.col>>

\* The go_play call that ends in this step passed both checks: the point
\* is on the board and empty.
PlayPasses == PlayEnds /\ OnBoard(board, PlayAt) /\ At(board, PlayAt) = None

\* The board right after the stone is placed, before any removal.
Placed == [board EXCEPT ![call'.row][call'.col] = call'.color]

\* The go_play call that ends in this step returned its 3-tuple.
PlayAccepted == PlayPasses /\ ret'.kind = "tuple"

Frame == UNCHANGED <<width, height, board, last_row, last_col>>

\* ---------------------------------------------------------------------
\* Properties
\* ---------------------------------------------------------------------

\* C1: go_play on an in-bounds, empty cell always returns the Accepted
\* 3-tuple: it neither rejects nor ends with an error, whatever the four
\* neighbours of the cell are.
C1_AlwaysAccepted ==
    [][PlayPasses => ret'.kind = "tuple"]_vars

\* C2: in an accepted play the opponent's colour is reported exactly when
\* some opponent group next to the placed stone has no liberty after the
\* placement; the cells of captured_stones are then exactly the stones of
\* those groups, and each of them is empty when go_play returns.
C2_OpponentCapture ==
    [][PlayAccepted =>
         LET dead == DeadOpponents(Placed, PlayAt)
             reported == ret'.color_captured = Opponent(call'.color)
         IN  /\ reported <=> dead # {}
             /\ reported =>
                  /\ Range(ret'.capture_list) = dead
                  /\ \A p \in dead : At(board', p) = None]_vars

\* C2 witness: a play has captured opponent stones on two sides of the
\* placed stone at once.
C2_Witness ==
    /\ call.op = "go_play"
    /\ ret.kind = "tuple"
    /\ ret.color_captured = Opponent(call.color)
    /\ \E p, q \in Range(ret.capture_list) :
          /\ p \in Adjacent(board, ret.pos)
          /\ q \in Adjacent(board, ret.pos)
          /\ p # q

\* C3: a play that passes both checks, captures no opponent group and
\* leaves the placed stone's own group without a liberty reports the
\* mover's colour and exactly the members of that group, all of which are
\* empty afterwards.
C3_Suicide ==
    [][(/\ PlayPasses
        /\ DeadOpponents(Placed, PlayAt) = {}
        /\ LibertiesOf(Placed, GroupAt(Placed, PlayAt)) = {})
       => /\ ret'.kind = "tuple"
          /\ ret'.color_captured = call'.color
          /\ Range(ret'.capture_list) = GroupAt(Placed, PlayAt)
          /\ \A p \in GroupAt(Placed, PlayAt) : At(board', p) = None]_vars

\* C4: a group that has a liberty after the stone is placed is not listed
\* in captured_stones and keeps every one of its stones: a stone that is
\* listed or removed belongs to a group without liberty.
C4_LibertyProtects ==
    [][PlayPasses =>
         \A p \in StonesOf(Placed) :
            (\/ At(board', p) # At(Placed, p)
             \/ (ret'.kind = "tuple" /\ p \in Range(ret'.capture_list)))
            => LibertiesOf(Placed, GroupAt(Placed, p)) = {}]_vars

\* C4 witness: a play has captured an opponent group while another
\* opponent stone next to the placed stone stayed on the board.
C4_Witness ==
    /\ call.op = "go_play"
    /\ ret.kind = "tuple"
    /\ ret.color_captured = Opponent(call.color)
    /\ \E q \in Adjacent(board, ret.pos) : At(board, q) = Opponent(call.color)

\* C5: when a play captures an opponent group, the opponent's colour is
\* reported and the whole group of the placed stone stays on the board;
\* a stone of the mover is removed only when no opponent group next to
\* the placed stone is without liberty.
C5_OpponentsFirst ==
    [][PlayAccepted =>
         LET dead == DeadOpponents(Placed, PlayAt)
             own == GroupAt(Placed, PlayAt)
         IN  /\ dead # {} =>
                  /\ ret'.color_captured = Opponent(call'.color)
                  /\ \A p \in own : At(board', p) = call'.color
             /\ (\E p \in StonesOf(Placed) :
                    At(Placed, p) = call'.color /\ At(board', p) # call'.color)
                  => dead = {}]_vars

\* C5 witness: the placed stone is on the board after a capture, and
\* every liberty of its group is a cell the capture has just emptied.
C5_Witness ==
    /\ call.op = "go_play"
    /\ ret.kind = "tuple"
    /\ ret.color_captured = Opponent(call.color)
    /\ At(board, ret.pos) = call.color
    /\ LibertiesOf(board, GroupAt(board, ret.pos)) \subseteq Range(ret.capture_list)

\* C6: go_play with a coordinate outside the board returns None and
\* changes no cell, no dimension and neither last_row nor last_col.
C6_OutOfBoundsRejected ==
    [][(PlayEnds /\ ~OnBoard(board, PlayAt)) => (ret' = RetNone /\ Frame)]_vars

\* C6 witness: an out-of-bounds play has been rejected on a board that
\* holds stones and has a last move.
C6_Witness ==
    /\ call.op = "go_play"
    /\ ~OnBoard(board, <<call.row, call.col>>)
    /\ ret = RetNone
    /\ StonesOf(board) # {}
    /\ last_row # Unset

\* C7: go_play on an occupied cell returns None and changes no cell, no
\* dimension and neither last_row nor last_col.
C7_OccupiedRejected ==
    [][(PlayEnds /\ OnBoard(board, PlayAt) /\ At(board, PlayAt) # None)
       => (ret' = RetNone /\ Frame)]_vars

\* C7 witness: a play of one colour on a cell held by the other colour,
\* which is not the last move, has been rejected.
C7_Witness ==
    /\ call.op = "go_play"
    /\ ret = RetNone
    /\ OnBoard(board, <<call.row, call.col>>)
    /\ At(board, <<call.row, call.col>>) = Opponent(call.color)
    /\ <<call.row, call.col>> # <<last_row, last_col>>

\* C8: in an accepted result captured_color is None exactly when
\* captured_stones is empty; otherwise it is the colour every listed cell
\* held before the removal (the opponent's or the mover's), and every
\* listed cell is empty afterwards.
C8_ResultShape ==
    [][PlayAccepted =>
         /\ ret'.color_captured = None <=> ret'.capture_list = <<>>
         /\ ret'.color_captured \in Colors \cup {None}
         /\ \A p \in Range(ret'.capture_list) :
               /\ At(Placed, p) = ret'.color_captured
               /\ At(board', p) = None]_vars

\* C8 witness: a suicide of a group of more than one stone has been
\* reported.
C8_Witness ==
    /\ call.op = "go_play"
    /\ ret.kind = "tuple"
    /\ ret.color_captured = call.color
    /\ Len(ret.capture_list) > 1
    /\ \A p \in Range(ret.capture_list) : At(board, p) = None

\* C9: after a resize with both dimensions in range, last_row and
\* last_col are unset.
C9_ResizeClearsLast ==
    (call.op = "resize" /\ InRange(call.width) /\ InRange(call.height))
       => (last_row = Unset /\ last_col = Unset)

\* C10: the value an accepted resize returns differs from the value a
\* rejected resize returns.
C10_ResizeReports ==
    (call.op = "resize" /\ InRange(call.width) /\ InRange(call.height))
       => \A w, h \in ResizeDims :
             ~(InRange(w) /\ InRange(h)) => ret # resize_result(w, h)

\* C13: invert turns every black cell white, every white cell black and
\* leaves empty cells empty, so a second invert restores every cell; it
\* changes neither the dimensions nor last_row/last_col.
C13_InvertInvolution ==
    [][(call = Idle /\ call'.op = "invert") =>
         /\ CellsOf(board') = CellsOf(board)
         /\ \A p \in CellsOf(board) :
               At(board', p) = IF At(board, p) = None
                               THEN None
                               ELSE Opponent(At(board, p))
         /\ inverted(board') = board
         /\ UNCHANGED <<width, height, last_row, last_col>>]_vars

\* C13 witness: invert has ended on a board that holds stones of both
\* colours and has a last move.
C13_Witness ==
    /\ call.op = "invert"
    /\ \E p, q \in StonesOf(board) : At(board, p) # At(board, q)
    /\ last_row # Unset

\* C15: captured_stones never lists a coordinate twice, and its length is
\* the number of stones the play removed.
C15_CapturedOnce ==
    [][PlayAccepted =>
         /\ Len(ret'.capture_list) = Cardinality(Range(ret'.capture_list))
         /\ Len(ret'.capture_list) =
               Cardinality({p \in StonesOf(Placed) : At(board', p) = None})]_vars

\* C16: no group without a liberty is on the board once an operation has
\* ended.
C16_GroupsHaveLiberty ==
    \A p \in StonesOf(board) : LibertiesOf(board, GroupAt(board, p)) # {}

\* C18: every top-level traversal of a play starts with a visitation
\* table without marks.
C18_FreshTables ==
    [][PlayPasses =>
         \A i \in DOMAIN analyzer_tables(Placed, call'.row, call'.col) :
            analyzer_tables(Placed, call'.row, call'.col)[i] = {}]_vars

\* C19: when the placed stone has an opponent neighbour and no opponent
\* group is captured, the table left by the last opponent traversal marks
\* opponent cells only, and the check of the placed stone's group gives
\* with it what it gives with a table without marks; that is the result
\* go_play returns.
C19_LeftoverTableHarmless ==
    [][(/\ PlayPasses
        /\ \E q \in Adjacent(Placed, PlayAt) :
              At(Placed, q) = Opponent(call'.color)
        /\ DeadOpponents(Placed, PlayAt) = {})
       => \A tables \in {analyzer_tables(Placed, call'.row, call'.col)} :
          \A left \in {tables[Len(tables)]} :
          \A with_left \in {recurse_captures(Placed, call'.color,
                                             call'.row, call'.col, left)} :
          \A with_fresh \in {recurse_captures(Placed, call'.color,
                                              call'.row, call'.col, {})} :
              /\ left # {}
              /\ \A p \in left : At(Placed, p) = Opponent(call'.color)
              /\ with_left.none = with_fresh.none
              /\ with_left.list = with_fresh.list
              /\ ret'.kind = "tuple"
              /\ ret'.capture_list = with_fresh.list
              /\ ret'.color_captured = IF with_fresh.list = <<>>
                                       THEN None
                                       ELSE call'.color]_vars

\* C19 witness: a suicide has been reported for a stone that has an
\* opponent stone next to it.
C19_Witness ==
    /\ call.op = "go_play"
    /\ ret.kind = "tuple"
    /\ ret.color_captured = call.color
    /\ \E q \in Adjacent(board, ret.pos) : At(board, q) = Opponent(call.color)

\* C20: an accepted go_play changes no cell but the played cell and the
\* cells of captured_stones, and changes neither width nor height.
C20_PlayFrame ==
    [][PlayAccepted =>
         /\ width' = width
         /\ height' = height
         /\ CellsOf(board') = CellsOf(board)
         /\ \A p \in CellsOf(board) :
               (p # PlayAt /\ p \notin Range(ret'.capture_list))
                  => At(board', p) = At(board, p)]_vars

\* C20 witness: a play has removed stones from a board on which at least
\* three other stones stay.
C20_Witness ==
    /\ call.op = "go_play"
    /\ ret.kind = "tuple"
    /\ ret.capture_list # <<>>
    /\ Cardinality(StonesOf(board) \ {ret.pos}) >= 3

\* SwapColours: the grid b with black and white exchanged.
SwapColours(b) ==
    [r \in DOMAIN b |->
       [c \in DOMAIN b[r] |-> IF b[r][c] = None THEN None
                              ELSE Opponent(b[r][c])]]

\* A resize call ends in this step.
ResizeEnds == call = Idle /\ call'.op = "resize"

\* C11: a resize with both dimensions in range takes effect: the board
\* then has height rows of width cells, all of them empty.
C11_ResizeTakesEffect ==
    [][(ResizeEnds /\ InRange(call'.width) /\ InRange(call'.height)) =>
         /\ width' = call'.width
         /\ height' = call'.height
         /\ DOMAIN board' = 0..(call'.height - 1)
         /\ \A r \in DOMAIN board' :
               /\ DOMAIN board'[r] = 0..(call'.width - 1)
               /\ \A c \in DOMAIN board'[r] : board'[r][c] = None]_vars

\* C11 witness: a resize to a board that is not square has ended, after a
\* stone had been played.
C11_Witness ==
    /\ call.op = "resize"
    /\ InRange(call.width) /\ InRange(call.height)
    /\ call.width # call.height
    /\ last_row # Unset
    /\ StonesOf(board) = {}

\* C12: a resize with a dimension out of range changes neither the grid,
\* nor width and height, nor last_row and last_col.
C12_BadResizeNoOp ==
    [][(ResizeEnds /\ ~(InRange(call'.width) /\ InRange(call'.height)))
       => Frame]_vars

\* C12 witness: a resize with one dimension in range and unlike the
\* board's, and the other out of range, has ended on a board with stones.
C12_Witness ==
    /\ call.op = "resize"
    /\ \/ (InRange(call.width) /\ call.width # width /\ ~InRange(call.height))
       \/ (InRange(call.height) /\ call.height # height /\ ~InRange(call.width))
    /\ StonesOf(board) # {}

\* C14: while invert runs, every step either leaves the board's grid as it
\* is or replaces all of it by the inverted grid; the grid is replaced in
\* the step that ends invert and in no other.
C14_InvertWholesale ==
    [][pc # "ready" =>
         \/ board' = board /\ pc' # "ready"
         \/ board' = SwapColours(board) /\ pc' = "ready"]_vars

\* C14 witness: invert is running, has built an inverted row that differs
\* from the board's, and the board is still the old grid.
C14_Witness ==
    /\ pc = "cells"
    /\ Len(new_board) >= 1
    /\ \E c \in DOMAIN board[0] : new_board[1][c + 1] # board[0][c]
    /\ \E c \in DOMAIN board[0] : board[0][c] # None

\* C17: recurse_captures called on a stone of the traced colour with a
\* table without marks returns the empty list exactly when the stone's
\* group has a liberty, and otherwise a list of exactly the members of the
\* group, each once.
C17_AnalyzerExact ==
    (/\ call.op = "recurse_captures"
     /\ OnBoard(board, <<call.row, call.col>>)
     /\ At(board, <<call.row, call.col>>) = call.color)
    => LET group == GroupAt(board, <<call.row, call.col>>)
       IN  /\ ret.kind = "list"
           /\ ret.list = <<>> <=> LibertiesOf(board, group) # {}
           /\ ret.list # <<>> =>
                 /\ Range(ret.list) = group
                 /\ Len(ret.list) = Cardinality(group)

\* C17 witness: the traversal has returned a group of three or more
\* stones on a board that has an empty cell touching the group only
\* diagonally.
C17_Witness ==
    /\ call.op = "recurse_captures"
    /\ ret.kind = "list"
    /\ Len(ret.list) >= 3
    /\ \E p \in CellsOf(board) :
          /\ At(board, p) = None
          /\ \E q \in Range(ret.list) :
                (p[1] - q[1]) * (p[1] - q[1]) = 1 /\ (p[2] - q[2]) * (p[2] - q[2]) = 1

\* The result of a traversal call by call is the result of
\* recurse_captures on the same arguments.
TraverseAgrees ==
    (call # Idle /\ call.op = "recurse_captures") =>
        LET found == recurse_captures(board, call.color, call.row, call.col, {})
        IN  /\ ret = (IF found.none THEN RetNone ELSE RetList(found.list))
            /\ \A r \in 0..(height - 1), c \in 0..(width - 1) :
                  (visit_marks[r][c] # 0) <=> (<<r, c>> \in found.visit_table)

\* C21: a traversal ends after a bounded number of calls: it never makes
\* more than four calls for each cell of the board and one for its start;
\* within it no cell is marked more than once, and never more than
\* height x width + 1 activations of recurse_captures are nested,
\* whatever the board holds and whichever stone the traversal starts at.
C21_TraversalBounded ==
    /\ Len(frames) <= height * width + 1
    /\ rc_calls <= Len(SQUARE_DELTAS) * height * width + 1
    /\ visit_marks # <<>> =>
          \A r \in 0..(height - 1), c \in 0..(width - 1) :
              visit_marks[r][c] <= 1

\* C21 witness: height x width + 1 activations are nested, every cell of
\* the board being marked.
C21_Witness ==
    /\ Len(frames) = height * width + 1
    /\ \A r \in 0..(height - 1), c \in 0..(width - 1) : visit_marks[r][c] = 1

\* C25: a seat holds no player or one.  sit on a seat without a player
\* returns True and installs the player, and makes the seat active unless
\* activate is False; sit on a seat with a player returns False and leaves
\* the seat as it is; stand on a seat with a player returns True and
\* leaves it without one; stand on a seat without a player returns False.
\* No call changes another seat.
C25_SeatHoldsOne ==
    [][(call = Idle /\ call' # Idle /\ call'.op \in {"sit", "stand"}) =>
         LET before == seats[call'.seat]
             after == seats'[call'.seat]
         IN  /\ after.player \in Players \cup {None}
             /\ \A j \in 1..4 : j # call'.seat => seats'[j] = seats[j]
             /\ (call'.op = "sit" /\ before.player = None) =>
                   /\ ret' = RetBool(TRUE)
                   /\ after.player = call'.player
                   /\ after.active = (call'.activate \/ before.active)
             /\ (call'.op = "sit" /\ before.player # None) =>
                   /\ ret' = RetBool(FALSE)
                   /\ after = before
             /\ (call'.op = "stand" /\ before.player # None) =>
                   /\ ret' = RetBool(TRUE)
                   /\ after.player = None
             /\ (call'.op = "stand" /\ before.player = None) =>
                   /\ ret' = RetBool(FALSE)
                   /\ after = before]_vars

\* C25 witness: sit has returned False for a player other than the one
\* the seat holds, on a seat that a sit with activate False has filled.
C25_Witness ==
    /\ call # Idle
    /\ call.op = "sit"
    /\ ret = RetBool(FALSE)
    /\ seats[call.seat].player # call.player
    /\ ~seats[call.seat].active

\* A handle call ends in this step with a play command of two words sent
\* while the table is playing; PlaySeat is the seat of the sender (NoSeat
\* when the sender has none) and PlayStr the second word.
PlayTried ==
    /\ call = Idle
    /\ call' # Idle
    /\ call'.op = "handle"
    /\ whist.state = "playing"
    /\ Len(call'.command_bits) = 2
    /\ call'.command_bits[1] \in PlayWords
PlaySeats == {i \in 1..4 : seats[i].player = call'.player}
PlayStr == call'.command_bits[2]
PlayTaken == PlayTried /\ call'.card_played # NoCard

\* The play may be accepted: the sender sits at the seat whose turn it
\* is, the string names a card of that seat's hand, and the card is of the
\* suit led when one is led and the hand has it.
PlayAllowed ==
    /\ whist.turn \in PlaySeats
    /\ PlayStr \in Cards
    /\ PlayStr \in data[whist.turn].hand
    /\ \/ whist.led_suit = None
       \/ suit_of(PlayStr) = whist.led_suit
       \/ \A c \in data[whist.turn].hand : suit_of(c) # whist.led_suit

\* C22: a card play is accepted only from the player at the seat whose
\* turn it is, with a string that names a card of that seat's hand, which
\* follows the suit led unless the hand has no card of it; any other
\* attempt is refused, and a refused attempt leaves the hands, the cards
\* on the table, the trick, the suit led and the turn as they were.
C22_PlayAccepted ==
    [][PlayTried =>
         /\ (call'.card_played # NoCard) <=> PlayAllowed
         /\ call'.card_played # NoCard => call'.card_played = PlayStr
         /\ call'.card_played = NoCard =>
               UNCHANGED <<whist, data, seats>>]_vars

\* C22 witness: the player whose turn it is has been refused a card of the
\* hand that is not of the suit led, the hand having a card of that suit.
C22_Witness ==
    /\ call # Idle
    /\ call.op = "handle"
    /\ whist.state = "playing"
    /\ call.command_bits[1] \in PlayWords
    /\ Len(call.command_bits) = 2
    /\ call.card_played = NoCard
    /\ whist.turn # NoSeat
    /\ seats[whist.turn].player = call.player
    /\ call.command_bits[2] \in data[whist.turn].hand
    /\ suit_of(call.command_bits[2]) # whist.led_suit
    /\ \E c \in data[whist.turn].hand : suit_of(c) = whist.led_suit

\* The seat after a seat, round the table.
SeatAfter(seat) == IF seat = 4 THEN 1 ELSE seat + 1

\* The card each seat has on the table once the card of this step lies
\* there, and whether a card on the table beats another.
OnTable(seat) ==
    IF seat = whist.turn THEN call'.card_played ELSE data[seat].card
Beats(c, d) ==
    IF suit_of(c) = suit_of(d)
    THEN rank_of(c) > rank_of(d)
    ELSE \/ suit_of(c) = whist.trump_suit
         \/ suit_of(c) = whist.led_suit /\ suit_of(d) # whist.trump_suit
TrickWinners ==
    {i \in 1..4 : \A j \in 1..4 : j # i => Beats(OnTable(i), OnTable(j))}
TrickWinner == CHOOSE i \in TrickWinners : TRUE

\* The tricks of each side once the trick of this step is given to its
\* winner.
NsTricks == whist.ns.tricks + (IF TrickWinner \in {1, 3} THEN 1 ELSE 0)
EwTricks == whist.ew.tricks + (IF TrickWinner \in {2, 4} THEN 1 ELSE 0)

\* C23: while the table is playing, an accepted card that is not the
\* fourth of its trick passes the turn to the next seat.  The fourth card
\* ends the trick: the trick and the suit led are cleared, the side of the
\* seat that played the winning card has one trick more and the other
\* side as many as before, and that seat has the turn.  The two sides
\* never have more than 13 tricks together; with the 13th trick the side
\* with more than six tricks scores the tricks over six, and then either
\* a side has reached the goal and the game is finished, or the deal
\* passes to the seat after the dealer, every seat holds 13 new cards, the
\* trick counts are zero and the seat after the new dealer has the turn.
C23_TrickAndHand ==
    [][PlayTaken =>
         /\ whist'.ns.tricks + whist'.ew.tricks <= HAND_SIZE
         /\ Len(whist.trick) + 1 < 4 =>
               /\ whist'.turn = SeatAfter(whist.turn)
               /\ Len(whist'.trick) = Len(whist.trick) + 1
               /\ whist'.ns = whist.ns
               /\ whist'.ew = whist.ew
               /\ whist'.dealer = whist.dealer
               /\ ~whist'.finished
         /\ Len(whist.trick) + 1 = 4 =>
               /\ Cardinality(TrickWinners) = 1
               /\ whist'.trick = <<>>
               /\ whist'.led_suit = None
               /\ NsTricks + EwTricks < HAND_SIZE =>
                     /\ whist'.ns = [whist.ns EXCEPT !.tricks = NsTricks]
                     /\ whist'.ew = [whist.ew EXCEPT !.tricks = EwTricks]
                     /\ whist'.turn = TrickWinner
                     /\ whist'.dealer = whist.dealer
                     /\ ~whist'.finished
               /\ NsTricks + EwTricks = HAND_SIZE =>
                     /\ whist'.ns.score =
                           whist.ns.score
                           + (IF NsTricks > BOOK THEN NsTricks - BOOK ELSE 0)
                     /\ whist'.ew.score =
                           whist.ew.score
                           + (IF NsTricks > BOOK THEN 0 ELSE EwTricks - BOOK)
                     /\ whist'.finished <=>
                           \/ whist'.ns.score >= whist.goal
                           \/ whist'.ew.score >= whist.goal
                     /\ whist'.finished =>
                           /\ whist'.ns.tricks = NsTricks
                           /\ whist'.ew.tricks = EwTricks
                           /\ whist'.turn = TrickWinner
                           /\ whist'.dealer = whist.dealer
                     /\ ~whist'.finished =>
                           /\ whist'.ns.tricks = 0
                           /\ whist'.ew.tricks = 0
                           /\ whist'.dealer = SeatAfter(whist.dealer)
                           /\ whist'.turn = SeatAfter(whist'.dealer)
                           /\ \A j \in 1..4 :
                                 Cardinality(data'[j].hand) = HAND_SIZE]_vars

\* C23 witness: a hand has ended without a side at the goal: East deals,
\* South has the turn, and the other side than the one that won the last
\* trick of the hand has scored.
C23_Witness ==
    /\ call # Idle
    /\ call.op = "handle"
    /\ call.card_played # NoCard
    /\ whist.dealer = 2
    /\ whist.turn = 3
    /\ whist.trick = <<>>
    /\ ~whist.finished
    /\ whist.ns.score + whist.ew.score > 0
    /\ seats[get_seat_of_player(call.player)].player = call.player
    /\ (get_seat_of_player(call.player) \in {1, 3}) <=> (whist.ew.score > 0)

\* The handle call that ends in this step was sent a command whose first
\* word is one of words.
Commanded(words) ==
    /\ call' # Idle
    /\ call'.op = "handle"
    /\ call'.command_bits[1] \in words

\* C24: the state of the table changes only from need_players to setup by
\* a config command, from setup to need_players by a done command, and
\* from need_players to playing by a tick that finds a player at each of
\* the four seats and the table active; the goal changes only by a goal
\* command sent in the state setup, and is never less than 1.
C24_TableStates ==
    [][/\ whist'.state # whist.state =>
            \/ /\ whist.state = "need_players"
               /\ whist'.state = "setup"
               /\ Commanded(ConfigWords)
            \/ /\ whist.state = "setup"
               /\ whist'.state = "need_players"
               /\ Commanded(DoneWords)
            \/ /\ whist.state = "need_players"
               /\ whist'.state = "playing"
               /\ call' # Idle
               /\ call'.op = "tick"
               /\ \A i \in 1..4 : seats[i].player \in Range(WhistPlayers)
               /\ whist.active
       /\ whist'.goal # whist.goal =>
            /\ whist.state = "setup"
            /\ Commanded(GoalWords)
       /\ whist.goal >= 1
       /\ whist'.goal >= 1]_vars

\* C24 witness: the game has begun with a goal that a player has set.
C24_Witness ==
    /\ whist.state = "playing"
    /\ whist.goal = 7
    /\ call # Idle
    /\ call.op = "tick"

====
